---- MODULE Spec2Model ----
(***************************************************************************)
(* Model of the text-to-speech demo (src/index.js): one shared utterance   *)
(* object `speech`, the catalog snapshot `voices`, the voice dropdown       *)
(* `voiceSelect`, and the three event handlers (onvoiceschanged, dropdown   *)
(* change, speak-button click).  The platform's speechSynthesis queue is    *)
(* modelled from its documentation in src/learned.md.                       *)
(***************************************************************************)
EXTENDS Integers, Sequences, FiniteSets

(* ---- bounds of the model ---- *)
\* number of distinct voices the platform can offer
MaxVoices == 2
\* number of speak-button clicks in a run
MaxClicks == 2

(* ---- values ---- *)
Null == "null"
Undefined == "undefined"
AllNames == <<"A", "B", "C", "D">>
VoiceNames == {AllNames[i] : i \in 1..MaxVoices}
\* what the user can have typed into the textarea
Texts == {"", "hi"}

\* what getVoices() can return: every selection of the platform's voices, in
\* the platform's order (length 0..MaxVoices)
Snapshots ==
    {[i \in 1..Cardinality(S) |->
        AllNames[CHOOSE k \in S : Cardinality({m \in S : m < k}) = i - 1]]
     : S \in SUBSET (1..MaxVoices)}

(* ---- pure helpers ---- *)
\* String(i) for the small indices that occur: new Option(voice.name, i)
\* stores the index as the option's string value
Digits == <<"0", "1", "2", "3", "4", "5", "6", "7", "8", "9">>
ToString(i) == Digits[i + 1]

\* voices[key] for a string key: the element at that index, else undefined
PropertyGet(arr, key) ==
    IF \E i \in 0..(Len(arr) - 1) : ToString(i) = key
    THEN arr[(CHOOSE i \in 0..(Len(arr) - 1) : ToString(i) = key) + 1]
    ELSE Undefined

\* voices[0]: undefined on an empty array
First(arr) == PropertyGet(arr, ToString(0))

\* variant: the voice setter rejects undefined instead of storing null
VoiceAssignable_RejectUndefined(v) == v \in VoiceNames \cup {Null}

\* the `voice` attribute is a nullable SpeechSynthesisVoice: undefined and
\* null both store null, a voice stores itself, anything else is a TypeError
VoiceAssignable(v) == v \in VoiceNames \cup {Null, Undefined}
ToVoiceAttr(v) == IF v \in VoiceNames THEN v ELSE Null

\* new Option(text, value)
NewOption(text, value) == [label |-> text, value |-> value]

\* voiceSelect.options[i] = opt, on a single-selection dropdown given as
\* [opts, sel] (sel = -1: no option selected).  Index i = length appends;
\* i < length replaces option i.  The new option is unselected; when that
\* leaves no option selected the dropdown selects its first option.
SetOption(sel, i, opt) ==
    LET opts == sel.opts
        n == Len(opts)
        newOpts == IF i < n THEN [opts EXCEPT ![i + 1] = opt]
                   ELSE Append(opts, opt)
        newSel == IF sel.sel = i \/ sel.sel = -1 THEN 0 ELSE sel.sel
    IN [opts |-> newOpts, sel |-> newSel]

\* voices.forEach((voice, i) => (voiceSelect.options[i] = new Option(voice.name, i)))
\* applied from index i (0-based) on
RECURSIVE PopulateFrom(_, _, _)
PopulateFrom(sel, vs, i) ==
    IF i >= Len(vs) THEN sel
    ELSE PopulateFrom(SetOption(sel, i, NewOption(vs[i + 1], ToString(i))), vs, i + 1)

\* voiceSelect.value: the value of the selected option, "" when there is none
SelectValue(sel) ==
    IF sel.sel >= 0 /\ sel.sel < Len(sel.opts) THEN sel.opts[sel.sel + 1].value ELSE ""

(* ---- state ---- *)
VARIABLES
    speech,       \* the shared SpeechSynthesisUtterance (index.js:1)
    voices,       \* latest catalog snapshot (index.js:3)
    voiceSelect,  \* the dropdown: [opts, sel] (index.js:5)
    queue,        \* speechSynthesis queue, head first; each entry is the
                  \* `speech` object, recorded with its text/voice at the call
    engine,       \* "idle" | "speaking": whether the queue head is being spoken
    done,         \* utterances that left the queue, with their outcome
    clicks,       \* number of click-handler runs so far
    threw,        \* TRUE once a handler or engine call has raised an error
    nonEmptySeen, \* TRUE once a non-empty snapshot has been delivered
    cancelledIdle \* TRUE once cancel() was called with nothing queued or playing

vars == <<speech, voices, voiceSelect, queue, engine, done, clicks, threw,
          nonEmptySeen, cancelledIdle>>

ctrlVars == <<speech, voices, voiceSelect, clicks, threw, nonEmptySeen>>

Init ==
    /\ speech = [text |-> "", voice |-> Null, rate |-> 1, pitch |-> 1, volume |-> 1]
    /\ voices = <<>>
    /\ voiceSelect = [opts |-> <<>>, sel |-> -1]
    /\ queue = <<>>
    /\ engine = "idle"
    /\ done = <<>>
    /\ clicks = 0
    /\ threw = FALSE
    /\ nonEmptySeen = FALSE
    /\ cancelledIdle = FALSE

(* ---- variants of the handlers, each with one plausible slip ---- *)
\* onvoiceschanged without line 12: the previous voice is kept across reloads
VoicesChanged_KeepVoice(snapshot) ==
    /\ voices' = snapshot
    /\ nonEmptySeen' = (nonEmptySeen \/ snapshot # <<>>)
    /\ voiceSelect' = PopulateFrom(voiceSelect, snapshot, 0)
    /\ UNCHANGED <<speech, threw, queue, engine, done, clicks, cancelledIdle>>

\* onvoiceschanged re-resolving the previous voice by name, first voice otherwise
VoicesChanged_ReResolve(snapshot) ==
    /\ voices' = snapshot
    /\ nonEmptySeen' = (nonEmptySeen \/ snapshot # <<>>)
    /\ speech' = [speech EXCEPT !.voice =
                     IF \E i \in 1..Len(snapshot) : snapshot[i] = speech.voice
                     THEN speech.voice
                     ELSE ToVoiceAttr(First(snapshot))]
    /\ voiceSelect' = PopulateFrom(voiceSelect, snapshot, 0)
    /\ UNCHANGED <<threw, queue, engine, done, clicks, cancelledIdle>>

\* onvoiceschanged reading a property of voices[0]: a TypeError on an empty snapshot
VoicesChanged_ThrowOnEmpty(snapshot) ==
    /\ voices' = snapshot
    /\ nonEmptySeen' = (nonEmptySeen \/ snapshot # <<>>)
    /\ IF snapshot # <<>>
       THEN /\ speech' = [speech EXCEPT !.voice = ToVoiceAttr(First(snapshot))]
            /\ voiceSelect' = PopulateFrom(voiceSelect, snapshot, 0)
            /\ threw' = threw
       ELSE /\ threw' = TRUE
            /\ UNCHANGED <<speech, voiceSelect>>
    /\ UNCHANGED <<queue, engine, done, clicks, cancelledIdle>>

\* speak() ignoring an utterance while another one is pending
Enqueue_DropIfPending(q, u, id) ==
    IF q # <<>> THEN q ELSE Append(q, [id |-> id, text |-> u.text, voice |-> u.voice])

\* click listener that does not call speak() for an empty text
Click_SkipEmpty(t) ==
    /\ clicks < MaxClicks
    /\ clicks' = clicks + 1
    /\ speech' = [speech EXCEPT !.text = t]
    /\ queue' = IF t = "" THEN queue
                ELSE Append(queue, [id |-> clicks + 1, text |-> t, voice |-> speech.voice])
    /\ UNCHANGED <<voices, voiceSelect, engine, done, threw, nonEmptySeen, cancelledIdle>>

\* the page retrying on error: the failed utterance is spoken again
EngineError_Retry ==
    /\ queue # <<>>
    /\ engine = "speaking"
    /\ done' = Append(done, [id |-> Head(queue).id, outcome |-> "errored"])
    /\ queue' = Append(Tail(queue), Head(queue))
    /\ engine' = "idle"
    /\ UNCHANGED cancelledIdle
    /\ UNCHANGED ctrlVars

\* cancel() raising an error when there is nothing to cancel
Cancel_ThrowWhenIdle ==
    /\ cancelledIdle' = (cancelledIdle \/ (queue = <<>> /\ engine = "idle"))
    /\ threw' = (threw \/ (queue = <<>> /\ engine = "idle"))
    /\ done' = done \o [i \in 1..Len(queue) |-> [id |-> queue[i].id, outcome |-> "cleared"]]
    /\ queue' = <<>>
    /\ engine' = "idle"
    /\ UNCHANGED <<speech, voices, voiceSelect, clicks, nonEmptySeen>>

\* the engine speaking the most recently queued utterance first
EngineStart_Newest ==
    /\ queue # <<>>
    /\ engine = "idle"
    /\ engine' = "speaking"
    /\ queue' = <<queue[Len(queue)]>> \o SubSeq(queue, 1, Len(queue) - 1)
    /\ UNCHANGED <<done, cancelledIdle>>
    /\ UNCHANGED ctrlVars

\* click listener that also re-reads the voice from the dropdown before speaking
Click_ReselectVoice(t) ==
    /\ clicks < MaxClicks
    /\ clicks' = clicks + 1
    /\ speech' = [speech EXCEPT !.text = t,
                                !.voice = ToVoiceAttr(PropertyGet(voices, SelectValue(voiceSelect)))]
    /\ queue' = Append(queue, [id |-> clicks + 1, text |-> speech'.text, voice |-> speech'.voice])
    /\ UNCHANGED <<voices, voiceSelect, engine, done, threw, nonEmptySeen, cancelledIdle>>

(* ---- handlers of src/index.js ---- *)
\* window.speechSynthesis.onvoiceschanged, getVoices() returning snapshot
VoicesChanged(snapshot) ==
    /\ voices' = snapshot
    /\ nonEmptySeen' = (nonEmptySeen \/ snapshot # <<>>)
    /\ IF VoiceAssignable(First(snapshot))
       THEN /\ speech' = [speech EXCEPT !.voice = ToVoiceAttr(First(snapshot))]
            /\ voiceSelect' = PopulateFrom(voiceSelect, snapshot, 0)
            /\ threw' = threw
       ELSE /\ threw' = TRUE
            /\ UNCHANGED <<speech, voiceSelect>>
    /\ UNCHANGED <<queue, engine, done, clicks, cancelledIdle>>

\* the user picks option j (0-based) of the dropdown; the change listener runs
Change(j) ==
    /\ j \in 0..(Len(voiceSelect.opts) - 1)
    /\ j # voiceSelect.sel
    /\ voiceSelect' = [voiceSelect EXCEPT !.sel = j]
    /\ LET v == PropertyGet(voices, SelectValue(voiceSelect'))
       IN IF VoiceAssignable(v)
          THEN /\ speech' = [speech EXCEPT !.voice = ToVoiceAttr(v)]
               /\ threw' = threw
          ELSE /\ threw' = TRUE
               /\ UNCHANGED speech
    /\ UNCHANGED <<voices, queue, engine, done, clicks, nonEmptySeen, cancelledIdle>>

\* speechSynthesis.speak(u): "Speak or queue an utterance"; utterances are
\* spoken in order
Enqueue(q, u, id) == Append(q, [id |-> id, text |-> u.text, voice |-> u.voice])

\* the speak button's click listener, the textarea holding t
Click(t) ==
    /\ clicks < MaxClicks
    /\ clicks' = clicks + 1
    /\ speech' = [speech EXCEPT !.text = t]
    /\ queue' = Enqueue(queue, speech', clicks + 1)
    /\ UNCHANGED <<voices, voiceSelect, engine, done, threw, nonEmptySeen, cancelledIdle>>

(* ---- the platform's speech engine (src/learned.md) ---- *)
\* the head of the queue starts being spoken (onstart)
EngineStart ==
    /\ queue # <<>>
    /\ engine = "idle"
    /\ engine' = "speaking"
    /\ UNCHANGED <<queue, done, cancelledIdle>>
    /\ UNCHANGED ctrlVars

\* the utterance being spoken leaves the queue with the given outcome
Finish(outcome) ==
    /\ queue # <<>>
    /\ engine = "speaking"
    /\ done' = Append(done, [id |-> Head(queue).id, outcome |-> outcome])
    /\ queue' = Tail(queue)
    /\ engine' = "idle"
    /\ UNCHANGED cancelledIdle

\* onend
EngineEnd ==
    /\ Finish("ended")
    /\ UNCHANGED ctrlVars

\* onerror: index.js registers no error handler, nothing of the page reacts
EngineError ==
    /\ Finish("errored")
    /\ UNCHANGED ctrlVars

\* every queued utterance leaves the queue as "cleared", head first
RECURSIVE Cleared(_)
Cleared(q) ==
    IF q = <<>> THEN <<>>
    ELSE <<[id |-> Head(q).id, outcome |-> "cleared"]>> \o Cleared(Tail(q))

\* speechSynthesis.cancel(): "Stop speaking and clear queue".  index.js never
\* calls it; it is an operation the page's environment can invoke.
Cancel ==
    /\ cancelledIdle' = (cancelledIdle \/ (queue = <<>> /\ engine = "idle"))
    /\ done' = done \o Cleared(queue)
    /\ queue' = <<>>
    /\ engine' = "idle"
    /\ UNCHANGED ctrlVars

(* ---- steps and specifications ---- *)
VoicesChangedStep == \E s \in Snapshots : VoicesChanged(s)
ChangeStep == \E j \in 0..(MaxVoices - 1) : Change(j)
ClickStep == \E t \in Texts : Click(t)

\* the page as index.js drives it: its three handlers and the engine's progress
Next ==
    \/ VoicesChangedStep
    \/ ChangeStep
    \/ ClickStep
    \/ EngineStart
    \/ EngineEnd
    \/ EngineError

Spec == Init /\ [][Next]_vars

\* the page with an engine that keeps working: a queued utterance is
\* eventually started, a started one eventually ends or fails
FairSpec ==
    /\ Init
    /\ [][Next]_vars
    /\ WF_vars(EngineStart)
    /\ WF_vars(EngineEnd \/ EngineError)

\* the same page with an environment that may also call speechSynthesis.cancel()
NextCancel ==
    \/ VoicesChangedStep
    \/ ChangeStep
    \/ ClickStep
    \/ EngineStart
    \/ EngineEnd
    \/ EngineError
    \/ Cancel

SpecCancel == Init /\ [][NextCancel]_vars

(* ---- properties ---- *)
\* what the engine holds for a queued entry: the entry is the one `speech`
\* object handed to speak(), so its text and voice are that object's fields
QueuedConfig(e) == [text |-> speech.text, voice |-> speech.voice]
\* the configuration at the moment of the speak call that queued the entry
CallConfig(e) == [text |-> e.text, voice |-> e.voice]
\* the entry the latest speak call has put at the end of the queue
LastQueued(q) == q[Len(q)]

\* C1: in every reachable state the utterance's voice is null or an element
\* of the latest catalog snapshot `voices`
C1_VoiceInCatalog ==
    speech.voice = Null \/ \E i \in 1..Len(voices) : voices[i] = speech.voice

\* a non-first voice of the current snapshot has been picked in the dropdown
C1_Witness ==
    /\ Len(voices) >= 2
    /\ voiceSelect.sel = 1
    /\ speech.voice = voices[2]

\* C2: two (or more) speak calls before the first utterance has ended leave
\* one queue entry per call, in call order
C2_TwoSpeaksQueuedInOrder ==
    (clicks >= 2 /\ done = <<>>) =>
        /\ Len(queue) = clicks
        /\ \A i \in 1..Len(queue) : queue[i].id = i

\* the second click came while the first utterance was being spoken
C2_Witness ==
    /\ clicks = 2
    /\ done = <<>>
    /\ engine = "speaking"
    /\ Len(queue) = 2

\* C3: every queued request carries the text and voice that were current at
\* its speak call; later clicks and voice changes do not alter it
C3_QueuedRequestKeepsCallConfig ==
    \A i \in 1..Len(queue) : QueuedConfig(queue[i]) = CallConfig(queue[i])

\* C4: a catalog notification that delivers the snapshot already held leaves
\* the selected voice as it was
C4_SameSnapshotKeepsVoice ==
    [][(VoicesChangedStep /\ voices' = voices) => speech'.voice = speech.voice]_vars

\* C5: every catalog notification with a non-empty snapshot sets the voice
\* to the first voice of the new snapshot, whatever was selected before
C5_ReloadResetsToFirst ==
    [][(VoicesChangedStep /\ voices' # <<>>) => speech'.voice = voices'[1]]_vars

\* catalog [A,B], B picked, reload to [A]: the voice is A while the dropdown
\* still shows the option left over for B
C5_Witness ==
    /\ voices = <<"A">>
    /\ Len(voiceSelect.opts) = 2
    /\ voiceSelect.opts[2].label = "B"
    /\ voiceSelect.sel = 1
    /\ speech.voice = "A"

\* C6: picking an option whose index has no element in `voices` raises no
\* error and leaves the voice null, and a speak with the voice null still
\* appends exactly one request (with the engine's default voice)
C6_UnresolvedVoiceFallsBack ==
    [][/\ (ChangeStep /\ PropertyGet(voices, SelectValue(voiceSelect')) = Undefined)
            => (speech'.voice = Null /\ ~threw')
       /\ (ClickStep /\ speech.voice = Null)
            => /\ Len(queue') = Len(queue) + 1
               /\ LastQueued(queue').voice = Null
               /\ ~threw']_vars

\* the catalog is non-empty, the dropdown shows a leftover option, the voice
\* is null and a request with the default voice has been queued
C6_Witness ==
    /\ voices # <<>>
    /\ voiceSelect.sel >= Len(voices)
    /\ speech.voice = Null
    /\ queue # <<>>
    /\ LastQueued(queue).voice = Null

\* C7: a click while the textarea is empty appends one request whose text
\* is the empty string
C7_EmptyTextIsQueued ==
    [][Click("") => /\ Len(queue') = Len(queue) + 1
                    /\ LastQueued(queue').text = ""
                    /\ LastQueued(queue').id = clicks']_vars

\* an empty text was spoken after a non-empty one
C7_Witness ==
    /\ Len(queue) = 2
    /\ queue[1].text = "hi"
    /\ queue[2].text = ""
    /\ speech.text = ""

\* C8: whatever the number of catalog notifications and also with empty
\* snapshots no error is raised, the voice is null as long as no non-empty
\* snapshot was delivered, and a speak then queues a request with the
\* default voice
C8_NoCatalogIsNoError ==
    /\ [](~threw /\ (~nonEmptySeen => speech.voice = Null))
    /\ [][(ClickStep /\ ~nonEmptySeen)
            => /\ Len(queue') = Len(queue) + 1
               /\ LastQueued(queue').voice = Null]_vars

\* a request was queued and spoken before any voice was available
C8_Witness ==
    /\ ~nonEmptySeen
    /\ voices = <<>>
    /\ voiceSelect.opts = <<>>
    /\ clicks >= 1
    /\ done # <<>>
    /\ speech.voice = Null

\* C9: the requests handed to the engine are as many as the clicks, and an
\* engine error changes neither the utterance, the snapshot nor the dropdown
C9_NoRetry ==
    /\ [](Len(queue) + Len(done) = clicks)
    /\ [][EngineError => UNCHANGED <<speech, voices, voiceSelect>>]_vars

\* an utterance has failed and another one is still queued
C9_Witness ==
    /\ \E i \in 1..Len(done) : done[i].outcome = "errored"
    /\ queue # <<>>

Status(id) ==
    IF \E i \in 1..Len(done) : done[i].id = id
    THEN done[CHOOSE i \in 1..Len(done) : done[i].id = id].outcome
    ELSE IF \E i \in 1..Len(queue) : queue[i].id = id
         THEN IF queue[1].id = id /\ engine # "idle" THEN engine ELSE "queued"
         ELSE "none"

\* the steps of an utterance's life
Lifecycle ==
    {<<"none", "queued">>, <<"queued", "speaking">>, <<"speaking", "ended">>,
     <<"speaking", "errored">>, <<"speaking", "paused">>, <<"paused", "speaking">>}

\* C12: every utterance goes queued, speaking, then ended or errored (paused
\* only between two speaking phases, and never under this page, which does
\* not pause or cancel); utterances start speaking in the order they were
\* queued; with a fair engine every queued utterance ends or fails (again
\* and again a state is reached where all utterances queued so far have)
C12_LifecycleOrderAndCompletion ==
    /\ [][\A id \in 1..MaxClicks :
            /\ Status(id)' # Status(id) => <<Status(id), Status(id)'>> \in Lifecycle
            /\ (Status(id) = "queued" /\ Status(id)' = "speaking")
                 => \A j \in 1..(id - 1) : Status(j)' \in {"ended", "errored"}]_vars
    /\ [](\A id \in 1..MaxClicks : Status(id) \notin {"paused", "cleared"})
    /\ []<>(\A id \in 1..clicks : Status(id) \in {"ended", "errored"})

\* two utterances were queued together and have both left, in order, the
\* first with an error and the second normally
C12_Witness ==
    /\ Len(done) = 2
    /\ done[1] = [id |-> 1, outcome |-> "errored"]
    /\ done[2] = [id |-> 2, outcome |-> "ended"]
    /\ queue = <<>>

\* the label of the option the dropdown shows as selected
ShownLabel(sel) ==
    IF sel.sel >= 0 /\ sel.sel < Len(sel.opts) THEN sel.opts[sel.sel + 1].label ELSE ""

\* C13: the dropdown has exactly one option per voice of the latest
\* snapshot, option i labelled with the name of voices[i] and valued i
C13_OptionsMirrorSnapshot ==
    /\ Len(voiceSelect.opts) = Len(voices)
    /\ \A i \in 1..Len(voices) :
          voiceSelect.opts[i] = NewOption(voices[i], ToString(i - 1))

\* C14: a speak while the snapshot is non-empty queues a request whose voice
\* is the one named by the option the dropdown shows as selected
C14_SpokenVoiceIsShownVoice ==
    [][(ClickStep /\ voices # <<>>)
         => LastQueued(queue').voice = ShownLabel(voiceSelect)]_vars

====
